---- MODULE Spec2Model ----
(***************************************************************************)
(* State-machine model of the Dropbox synchronisation core of the          *)
(* todo.txt web application: the sync coordinator (coordinateSync and the  *)
(* debounced localDataChanged handler), the per-file pending-upload        *)
(* ledger, the online/offline handlers, the status indicator, the conflict *)
(* modal and the gateway functions of dropbox/api.js.                      *)
(*                                                                         *)
(* JavaScript is single threaded: every action below is one run-to-        *)
(* completion segment of a handler, from an event or a promise resolution  *)
(* to the next await.  Awaits that only yield to the micro-task queue      *)
(* (an async function that returns without a network call) are merged into *)
(* the segment that follows them.                                          *)
(***************************************************************************)
EXTENDS Integers, Sequences, FiniteSets, TLC

\* ------------------------------------------------------------------ bounds
MaxTime == 4000          \* the clock stops advancing here (milliseconds)
MaxPasses == 2           \* async call chains that can be suspended at once
MaxEvents == 4           \* user, network and remote-store events in a run
MaxListings == 3         \* filesListFolder calls one discovery may make
MaxPathLen == 3          \* longest file path handed to the ledger

\* --------------------------------------------------------------- constants
buffer == 2000                   \* tolerance window of coordinateSync
TickMs == buffer \div 2          \* granularity of the modelled clock
SYNC_DEBOUNCE_DELAY == 3000      \* debounce delay of handleLocalDataChange

NoTime == 0 - 1                  \* null timestamp / no timer armed
NoPath == <<>>                   \* null or empty file path (falsy)

\* File paths are strings, modelled as tuples of one-character strings.
FileA == <<"/", "a">>
FileB == <<"/", "b">>
Files == {FileA, FileB}

\* a path no file has at start: the name typed into the add-file or the
\* rename-file modal
FileC == <<"/", "c">>
Paths == Files \cup {FileC}

\* todo-storage: the file that can be neither renamed nor left untracked
DEFAULT_FILE_PATH == FileA

\* SyncStatus of dropbox/ui.js
IDLE == "idle"
SYNCING == "syncing"
PENDING == "pending"
OFFLINE == "offline"
ERROR == "error"
NOT_CONNECTED == "not_connected"
SyncStatus == {IDLE, SYNCING, PENDING, OFFLINE, ERROR, NOT_CONNECTED}

\* ----------------------------------------------------------- text handling
\* A text is a tuple of one-character strings; a todo list is a sequence of
\* todo texts (the random ids of the {id, text} objects are not modelled).
Line(c) == <<c>>
EditLists == { <<Line("x")>> }
RemoteTexts == { <<" ", "z", "\n">> }

\* JavaScript values returned by downloadTodosFromDropbox: null or a string.
JsNull == [tag |-> "null", val |-> <<>>]
JsUndefined == [tag |-> "undefined", val |-> <<>>]
JsString(t) == [tag |-> "string", val |-> t]

\* truthiness of a JavaScript value: null, undefined and "" are falsy
Truthy(v) == v.tag = "string" /\ v.val # <<>>

\* v.content for a value that is a string primitive or null-checked before:
\* a string has no property named content, so the access yields undefined.
ContentProperty(v) == IF v.tag = "object" THEN v.val ELSE JsUndefined

\* String.prototype.split('\n')
RECURSIVE Split(_)
Split(s) ==
  IF \A i \in 1..Len(s) : s[i] # "\n"
  THEN <<s>>
  ELSE LET i == CHOOSE k \in 1..Len(s) :
                  s[k] = "\n" /\ \A j \in 1..(k-1) : s[j] # "\n"
       IN <<SubSeq(s, 1, i - 1)>> \o Split(SubSeq(s, i + 1, Len(s)))

\* String.prototype.trim()
RECURSIVE Trim(_)
Trim(s) ==
  IF s = <<>> THEN s
  ELSE IF Head(s) = " " THEN Trim(Tail(s))
  ELSE IF s[Len(s)] = " " THEN Trim(SubSeq(s, 1, Len(s) - 1))
  ELSE s

\* lines.map(trim).filter(nonempty) of saveTodosFromText
ParseText(t) ==
  LET lines == Split(t)
      trimmed == [i \in 1..Len(lines) |-> Trim(lines[i])]
  IN SelectSeq(trimmed, LAMBDA l : Len(l) > 0)

\* todos.map(todo => todo.text).join('\n')
RECURSIVE Join(_)
Join(list) ==
  IF list = <<>> THEN <<>>
  ELSE IF Len(list) = 1 THEN list[1]
  ELSE list[1] \o <<"\n">> \o Join(Tail(list))

\* ------------------------------------------------------------------- state
VARIABLES
  now,                \* wall clock, milliseconds
  online,             \* navigator.onLine
  dbx,                \* api.js: the Dropbox API instance exists
  activeFile,         \* todo-storage: path of the active file
  knownFiles,         \* todo-storage: paths of the known (tracked) files
  todos,              \* todo-storage: todo list of every file
  localLastModified,  \* todo-storage: timestamp of the last local save
  pendingStore,       \* localStorage keys holding 'true' (pending ledger)
  remote,             \* the remote store: per path, absent or a file
  currentSyncStatus,  \* ui.js: status shown by the indicator
  currentFilePath,    \* ui.js: file the shown status applies to
  syncDebounceTimer,  \* coordinator: handle of the timer set last (its
                      \* deadline), or NoTime
  armedTimers,        \* the browser's timers that are set and have neither
                      \* fired nor been cleared (their deadlines)
  conflictResolver,   \* ui.js: call chain whose promise the modal resolves
  pass,               \* the suspended async call chains
  events,             \* number of environment events so far
  dirty,              \* history: per file, edited locally / remotely since
                      \* the two sides last agreed (read by no handler)
  auth,               \* auth.js: the tokens in memory and the storage keys
                      \* the module owns
  authCall            \* auth.js: the suspended call chain of the module

vars == <<now, online, dbx, activeFile, knownFiles, todos, localLastModified,
          pendingStore, remote, currentSyncStatus,
          currentFilePath, syncDebounceTimer, armedTimers, conflictResolver,
          pass, events, dirty, auth, authCall>>

PassIds == 1..MaxPasses

NoRemote == [exists |-> FALSE, content |-> <<>>, server_modified |-> NoTime]
RemoteFile(t, ts) == [exists |-> TRUE, content |-> t, server_modified |-> ts]

\* auth.js: a token that is not held (null in memory, no item in storage)
NoToken == "null"
AccessTokens == {NoToken, "access"}
RefreshTokens == {NoToken, "refresh"}
Verifiers == {NoToken, "verifier"}

\* accessToken and refreshToken are the module variables; the fields named
\* after the storage keys hold the items of localStorage (the two token
\* keys) and of sessionStorage (the verifier key).
Credential(at, rt, verifier) ==
  [accessToken |-> at, refreshToken |-> rt,
   ACCESS_TOKEN_KEY |-> at, REFRESH_TOKEN_KEY |-> rt,
   CODE_VERIFIER_KEY |-> verifier]

\* after a completed PKCE login: both tokens held, the verifier removed
LoggedIn == Credential("access", "refresh", NoToken)

\* a session opened by the implicit-grant revision of the module, which
\* stored an access token and no refresh token
AccessOnly == Credential("access", NoToken, NoToken)

\* no call chain of auth.js is running
IdleCall ==
  [pc |-> "idle", op |-> "none", branch |-> "none", inDiscover |-> FALSE,
   result |-> "none", nRefresh |-> 0, nList |-> 0, nLogout |-> 0,
   startAccess |-> NoToken, startRefresh |-> NoToken, refreshOk |-> "none",
   redirect |-> "none", exchange |-> "none", hrResult |-> "none",
   hrBefore |-> Credential(NoToken, NoToken, NoToken),
   hrAfter |-> Credential(NoToken, NoToken, NoToken)]

\* the call chain at the entry of operation op; the tokens held at the entry
\* are kept as history
EnterCall(op, credential) ==
  [IdleCall EXCEPT !.op = op, !.startAccess = credential.accessToken,
                   !.startRefresh = credential.refreshToken]

\* How dbx.filesGetMetadata settles: with the metadata (or path/not_found
\* for a file the store does not hold), rejected as unauthenticated, or
\* failed on the network or the server.
MetaResults == {"ok", "auth", "error"}

\* A call chain that is not running.
IdlePass ==
  [pc |-> "idle", path |-> NoPath,
   localDate |-> NoTime, dropboxDate |-> NoTime, dlBranch |-> "none",
   uLocalDate |-> NoTime, uDropboxDate |-> NoTime, upContent |-> <<>>,
   row |-> "none", choice |-> "none", uChoice |-> "none",
   nPrompt |-> 0, promptArgs |-> <<>>, xferBeforePrompt |-> FALSE,
   nUploadCalls |-> 0, nPut |-> 0, nDl |-> 0,
   putOk |-> FALSE, dlResult |-> JsNull, wrote |-> FALSE, bothDirty |-> FALSE,
   startPending |-> FALSE, endPending |-> FALSE, finalStatus |-> "none",
   caller |-> "coordinateSync", newPath |-> NoPath, activeAtCall |-> NoPath,
   localRename |-> "none", nRemote |-> 0, remoteOk |-> "none",
   warned |-> FALSE, thrown |-> "none", errorMessage |-> "none"]

\* The part of the state a handler segment reads and writes, as one record,
\* so that the statements of a segment compose in program order.
Ctx(i) ==
  [id |-> i, p |-> pass[i],
   status |-> currentSyncStatus, spath |-> currentFilePath,
   pend |-> pendingStore, todos |-> todos, lmod |-> localLastModified,
   timer |-> syncDebounceTimer, armed |-> armedTimers,
   remote |-> remote, resolver |-> conflictResolver, dirty |-> dirty,
   auth |-> auth, call |-> authCall, dbx |-> dbx]

Commit(c) ==
  /\ pass' = [pass EXCEPT ![c.id] = c.p]
  /\ currentSyncStatus' = c.status
  /\ currentFilePath' = c.spath
  /\ pendingStore' = c.pend
  /\ todos' = c.todos
  /\ localLastModified' = c.lmod
  /\ syncDebounceTimer' = c.timer
  /\ armedTimers' = c.armed
  /\ remote' = c.remote
  /\ conflictResolver' = c.resolver
  /\ dirty' = c.dirty
  /\ auth' = c.auth
  /\ authCall' = c.call

\* the same for a segment that may create or drop the API instance
AuthCommit(c) == Commit(c) /\ dbx' = c.dbx

\* history bookkeeping: the local copy of the active file and the remote
\* file filePath were made equal by a transfer
Reconciled(c, filePath) ==
  IF filePath = activeFile
  THEN [c EXCEPT !.dirty[filePath] = [l |-> FALSE, r |-> FALSE]]
  ELSE c

\* history bookkeeping: the user edited the local copy of filePath
EditedLocally(c, filePath) == [c EXCEPT !.dirty[filePath].l = TRUE]

\* ------------------------------------------------------------ dropbox/ui.js
updateSyncIndicator(c, status, filePath) ==
  LET relevantFilePath == IF filePath # NoPath THEN filePath ELSE activeFile
  IN IF status = c.status /\ relevantFilePath = c.spath /\ status # ERROR
     THEN c
     ELSE [c EXCEPT !.status = status, !.spath = relevantFilePath]

\* showConflictModal: fills the modal, shows it and replaces the module's
\* single resolver by the resolve function of the new promise.
showConflictModal(c, localDate, dropboxDate, filePath) ==
  [c EXCEPT !.resolver = c.id,
            !.p.nPrompt = @ + 1,
            !.p.promptArgs = IF c.p.nPrompt = 0
                             THEN <<localDate, dropboxDate, filePath>> ELSE @,
            !.p.xferBeforePrompt = IF c.p.nPrompt = 0
                                   THEN c.p.nPut + c.p.nDl > 0 ELSE @]
\* ---------------------------------------------------------- dropbox/auth.js
\* initializeDropboxApi(null): the API instance is dropped
initializeDropboxApiNull(c) == [c EXCEPT !.dbx = FALSE]
\* variant of logoutFromDropbox that leaves the refresh token where it is
logoutFromDropbox_KeepsRefresh(c) ==
  LET c1 == [c EXCEPT !.auth.accessToken = NoToken,
                      !.auth.ACCESS_TOKEN_KEY = NoToken,
                      !.auth.CODE_VERIFIER_KEY = NoToken]
  IN updateSyncIndicator(initializeDropboxApiNull(c1), NOT_CONNECTED, NoPath)

\* logoutFromDropbox: both tokens are set to null in memory, their items and
\* the verifier item are removed from storage, the API instance is dropped
\* and the indicator shows NotConnected.
logoutFromDropbox(c) ==
  LET c1 == [c EXCEPT !.auth.accessToken = NoToken,
                      !.auth.refreshToken = NoToken,
                      !.auth.ACCESS_TOKEN_KEY = NoToken,
                      !.auth.REFRESH_TOKEN_KEY = NoToken,
                      !.auth.CODE_VERIFIER_KEY = NoToken]
  IN updateSyncIndicator(initializeDropboxApiNull(c1), NOT_CONNECTED, NoPath)
\* logoutFromDropbox called from inside a call chain of the module; the
\* count is history
CallLogout(c) == [logoutFromDropbox(c) EXCEPT !.call.nLogout = @ + 1]

\* syncWithDropbox (api.js) from its entry to its first await. Only what it
\* does to the indicator is modelled here; its transfers are the ones of the
\* coordinator.
syncWithDropboxStart(c) ==
  IF activeFile = NoPath THEN updateSyncIndicator(c, ERROR, NoPath)
  ELSE IF ~c.dbx THEN c
  ELSE IF ~online THEN updateSyncIndicator(c, OFFLINE, NoPath)
  ELSE [updateSyncIndicator(c, SYNCING, NoPath) EXCEPT !.call.pc = "init_sync"]

\* discoverDropboxFiles from its entry to `await dbx.filesListFolder(...)`
discoverDropboxFiles(c) ==
  IF ~c.dbx
  THEN [c EXCEPT !.call.pc = "done"]
  ELSE [c EXCEPT !.call.pc = "list", !.call.inDiscover = TRUE,
                 !.call.nList = @ + 1]

\* what follows `await initializeDropboxApi(dbxAuth)` in its three callers:
\* refreshAccessToken returns the token to getAccessToken or to the refresh
\* branch of initializeAuthentication; the token branch of
\* initializeAuthentication and the retry inside discoverDropboxFiles go on
\* to discoverDropboxFiles.
AfterApiInit(c) ==
  IF c.call.op = "getToken"
  THEN [c EXCEPT !.call.pc = "done", !.call.result = c.auth.accessToken]
  ELSE IF c.call.branch = "refresh"
  THEN [c EXCEPT !.call.pc = "done"]
  ELSE discoverDropboxFiles(c)

\* initializeDropboxApi(dbxAuth): the API instance is created and the initial
\* sync awaited
initializeDropboxApi(c) ==
  LET c1 == syncWithDropboxStart([c EXCEPT !.dbx = TRUE])
  IN IF c1.call.pc = "init_sync" THEN c1 ELSE AfterApiInit(c1)

\* the catch block of the caller of refreshAccessToken
RefreshThrown(c) ==
  IF c.call.op = "getToken"
  THEN [c EXCEPT !.call.pc = "done", !.call.result = NoToken]
  ELSE IF c.call.inDiscover
  THEN [c EXCEPT !.call.pc = "done"]
  ELSE [updateSyncIndicator(CallLogout(c), ERROR, NoPath)
          EXCEPT !.call.pc = "done"]

\* refreshAccessToken from its entry to `await dbxAuth.refreshAccessToken()`
refreshAccessToken(c) ==
  IF c.auth.refreshToken = NoToken
  THEN RefreshThrown(c)
  ELSE [updateSyncIndicator(c, SYNCING, NoPath)
          EXCEPT !.call.pc = "refresh", !.call.nRefresh = @ + 1]

\* variant of refreshAccessToken that keeps the new token in memory only
RefreshResolved_NotPersisted(c) ==
  initializeDropboxApi([c EXCEPT !.auth.accessToken = "access"])

\* refreshAccessToken after the refresh call resolved: the new access token
\* is kept in memory and in localStorage, the API instance renewed
RefreshResolved(c) ==
  initializeDropboxApi([c EXCEPT !.auth.accessToken = "access",
                                 !.auth.ACCESS_TOKEN_KEY = "access"])
\* variant of the catch block of refreshAccessToken that leaves the indicator
\* as logoutFromDropbox set it
RefreshRejected_NoError(c) ==
  RefreshThrown(CallLogout(c))

\* refreshAccessToken after the refresh call was rejected: logout, then the
\* indicator is set to Error and the error thrown to the caller
RefreshRejected(c) ==
  RefreshThrown(updateSyncIndicator(CallLogout(c), ERROR, NoPath))

\* getAccessToken from its entry to its return or to the refresh call
getAccessToken(c) ==
  IF c.auth.accessToken = NoToken /\ c.auth.refreshToken # NoToken
  THEN refreshAccessToken(c)
  ELSE [c EXCEPT !.call.pc = "done", !.call.result = c.auth.accessToken]

\* initializeAuthentication after handleRedirect returned false
initializeAuthentication(c) ==
  IF c.auth.accessToken # NoToken
  THEN initializeDropboxApi([c EXCEPT !.call.branch = "token"])
  ELSE IF c.auth.refreshToken # NoToken
  THEN refreshAccessToken([c EXCEPT !.call.branch = "refresh"])
  ELSE [updateSyncIndicator(c, NOT_CONNECTED, NoPath) EXCEPT !.call.pc = "done"]

\* what the URL of the loaded page carries: nothing, an authorization code,
\* or an error parameter
RedirectParams == {"none", "code", "error"}

\* handleRedirect returns false and initializeAuthentication goes on; the
\* credential at the return is kept as history
RedirectFalse(c) ==
  initializeAuthentication([c EXCEPT !.call.hrResult = "false",
                                     !.call.hrAfter = c.auth])

\* handleRedirect from its entry to its return or to
\* `await dbxAuth.getAccessTokenFromCode(...)`
handleRedirect(c0, params) ==
  LET c == [c0 EXCEPT !.call.redirect = params, !.call.hrBefore = c0.auth]
  IN IF params = "code"
     THEN IF c.auth.CODE_VERIFIER_KEY = NoToken
          THEN RedirectFalse(
                 [updateSyncIndicator(c, ERROR, NoPath)
                    EXCEPT !.auth.CODE_VERIFIER_KEY = NoToken,
                           !.call.exchange = "no_verifier"])
          ELSE [c EXCEPT !.call.pc = "exchange"]
     ELSE IF params = "error"
     THEN RedirectFalse(updateSyncIndicator(c, ERROR, NoPath))
     ELSE RedirectFalse(c)

\* handleRedirect after the exchange resolved: both tokens are kept in
\* memory and in localStorage, the verifier is removed, the API instance is
\* created and the files discovered; then it returns true
ExchangeResolved(c) ==
  LET c1 == [c EXCEPT !.auth = Credential("access", "refresh", NoToken)]
  IN initializeDropboxApi([c1 EXCEPT !.call.branch = "redirect",
                                     !.call.exchange = "ok",
                                     !.call.hrResult = "true",
                                     !.call.hrAfter = c1.auth])

\* variant of the catch block of handleRedirect that leaves the verifier in
\* sessionStorage
ExchangeRejected_KeepsVerifier(c) ==
  RedirectFalse([updateSyncIndicator(c, ERROR, NoPath)
                   EXCEPT !.call.exchange = "failed"])

\* handleRedirect after the exchange was rejected: the indicator shows
\* Error, the verifier is removed and it returns false
ExchangeRejected(c) ==
  RedirectFalse([updateSyncIndicator(c, ERROR, NoPath)
                   EXCEPT !.auth.CODE_VERIFIER_KEY = NoToken,
                          !.call.exchange = "failed"])

\* the catch block of discoverDropboxFiles, by the way filesListFolder failed
DiscoverCatch(c, res) ==
  IF res = "auth" /\ c.auth.refreshToken # NoToken
  THEN refreshAccessToken(updateSyncIndicator(c, SYNCING, NoPath))
  ELSE IF res = "auth"
  THEN [CallLogout(c) EXCEPT !.call.pc = "done"]
  ELSE [updateSyncIndicator(c, ERROR, NoPath) EXCEPT !.call.pc = "done"]

\* ------------------------------------------------------- dropbox/offline.js
getDynamicPendingKey(filePath) ==
  IF filePath = NoPath THEN NoPath
  ELSE <<"pending_upload">> \o
       [i \in 1..Len(filePath) |-> IF filePath[i] = "/" THEN "_" ELSE filePath[i]]

PendingIn(store, filePath) ==
  LET key == getDynamicPendingKey(filePath)
  IN key # NoPath /\ key \in store

isUploadPending(filePath) == PendingIn(pendingStore, filePath)

setUploadPending(c, filePath) ==
  LET key == getDynamicPendingKey(filePath)
  IN IF key = NoPath THEN c
     ELSE LET c1 == [c EXCEPT !.pend = @ \cup {key}]
          IN IF filePath = activeFile
             THEN updateSyncIndicator(c1, PENDING, filePath)
             ELSE c1

clearUploadPending(c, filePath) ==
  LET key == getDynamicPendingKey(filePath)
  IN IF key = NoPath THEN c ELSE [c EXCEPT !.pend = @ \ {key}]

\* ------------------------------------------------- sync coordinator, storage
\* clearTimeout(syncDebounceTimer): the timer behind the handle, if it is
\* still armed, is dropped.  (The code keeps the stale handle; clearing a
\* handle whose timer is gone does nothing, so the handle is forgotten.)
clearDebounceTimer(c) ==
  [c EXCEPT !.armed = @ \ {c.timer}, !.timer = NoTime]

\* syncDebounceTimer = setTimeout(..., SYNC_DEBOUNCE_DELAY)
setDebounceTimer(c) ==
  [c EXCEPT !.armed = @ \cup {now + SYNC_DEBOUNCE_DELAY},
            !.timer = now + SYNC_DEBOUNCE_DELAY]

\* variant of the handler that sets the new timer without clearing the one
\* set before
handleLocalDataChange_NoClear(c, filePath) ==
  IF filePath = activeFile
  THEN LET c1 == IF ~online THEN setUploadPending(c, activeFile) ELSE c
       IN setDebounceTimer(c1)
  ELSE c

handleLocalDataChange(c, filePath) ==
  IF filePath = activeFile
  THEN LET c1 == IF ~online THEN setUploadPending(c, activeFile) ELSE c
       IN setDebounceTimer(clearDebounceTimer(c1))
  ELSE c

\* The multi-file store: a save writes the list of the given file, stamps
\* its last-modified time and dispatches localDataChanged for that file.
writeAllTasks(c, filePath, list) ==
  handleLocalDataChange(
    [c EXCEPT !.todos[filePath] = list, !.lmod[filePath] = now], filePath)

\* saveTodosToStorage: the store's save is scoped to the active file.
saveTodosToStorage(c, list) == writeAllTasks(c, activeFile, list)

\* setLastSyncTime stores a timestamp that only the tooltip of the indicator
\* reads; no modelled code depends on it, so the store is not represented.
setLastSyncTime(c, filePath) == c

\* saveTodosFromText: rejects anything that is not a string.
saveTodosFromText(c, v) ==
  IF v.tag # "string" THEN c
  ELSE [Reconciled(saveTodosToStorage(c, ParseText(v.val)), c.p.path)
          EXCEPT !.p.wrote = TRUE]

\* ------------------------------------------------------ dropbox/api.js
\* getDbxInstance: the accessor of the module's API instance
getDbxInstance == dbx

\* What uploadTodosToDropbox(filePath) hands back to its caller: the function
\* has no return statement with a value, so every call yields undefined.
uploadTodosToDropboxResult == JsUndefined

\* variant of the finally block that also drops the pending flag of the file
Finally_ClearsPending(c, finalStatus) ==
  LET c0 == clearUploadPending(c, c.p.path)
      c1 == IF getDbxInstance
            THEN updateSyncIndicator(c0, finalStatus, c.p.path)
            ELSE updateSyncIndicator(c0, NOT_CONNECTED, NoPath)
  IN [c1 EXCEPT !.p.pc = "done", !.p.finalStatus = finalStatus,
                !.p.endPending = PendingIn(c1.pend, c.p.path)]

\* variant of the finally block that leaves the indicator as it is
Finally_KeepsIndicator(c, finalStatus) ==
  [c EXCEPT !.p.pc = "done", !.p.finalStatus = finalStatus,
            !.p.endPending = PendingIn(c.pend, c.p.path)]

\* finally block of coordinateSync
Finally(c, finalStatus) ==
  LET c1 == IF getDbxInstance
            THEN updateSyncIndicator(c, finalStatus, c.p.path)
            ELSE updateSyncIndicator(c, NOT_CONNECTED, NoPath)
  IN [c1 EXCEPT !.p.pc = "done", !.p.finalStatus = finalStatus,
                !.p.endPending = PendingIn(c1.pend, c.p.path)]

\* The caller of uploadTodosToDropbox resumes after its await: coordinateSync
\* tests the value it got and runs its finally block; the add-file handler
\* ignores the value and goes on to register the file.
AfterUpload(c) ==
  IF c.p.caller = "addFile"
  THEN [c EXCEPT !.p.pc = "a_uploaded"]
  ELSE IF Truthy(uploadTodosToDropboxResult)
  THEN Finally(clearUploadPending(setLastSyncTime(c, c.p.path), c.p.path), IDLE)
  ELSE Finally(c, ERROR)

\* finally block of uploadTodosToDropbox, then the return to coordinateSync
UploadFinally(c, statusAfterUpload) ==
  AfterUpload(updateSyncIndicator(c, statusAfterUpload, NoPath))

\* uploadTodosToDropbox from "if (proceedWithUpload)" to the filesUpload call;
\* with no API instance the call throws and the catch block runs.
ProceedWithUpload(c) ==
  IF ~dbx THEN UploadFinally(c, ERROR)
  ELSE [c EXCEPT !.p.pc = "u_put",
                 !.p.upContent = Join(c.todos[activeFile]),
                 !.p.nPut = @ + 1]

\* uploadTodosToDropbox after getDropboxFileMetadata returned
UploadAfterMetadata(c) ==
  LET localDate == c.p.uLocalDate
      dropboxDate == c.p.uDropboxDate
  IN IF dropboxDate # NoTime /\ localDate # NoTime /\ dropboxDate > localDate
     THEN [showConflictModal(c, localDate, dropboxDate, c.p.path)
             EXCEPT !.p.pc = "u_modal"]
     ELSE ProceedWithUpload(c)

\* uploadTodosToDropbox from its entry to the first await
UploadEnter(c0) ==
  LET c == [c0 EXCEPT !.p.nUploadCalls = @ + 1]
  IN IF c.p.path = NoPath
     THEN AfterUpload(updateSyncIndicator(c, ERROR, NoPath))
     ELSE IF ~online
     THEN AfterUpload(setUploadPending(c, c.p.path))
     ELSE IF ~dbx
     THEN AfterUpload(updateSyncIndicator(c, ERROR, NoPath))
     ELSE [updateSyncIndicator(c, SYNCING, NoPath) EXCEPT !.p.pc = "u_import"]

\* downloadTodosFromDropbox from its entry to the filesDownload call; yields
\* the context and whether a request went out (no API instance: null at once)
DownloadEnter(c, nextPc, branch) ==
  IF ~dbx \/ c.p.path = NoPath
  THEN [sent |-> FALSE, c |-> c]
  ELSE [sent |-> TRUE,
        c |-> [updateSyncIndicator(c, SYNCING, NoPath)
                 EXCEPT !.p.pc = nextPc, !.p.dlBranch = branch,
                        !.p.nDl = @ + 1]]

\* downloadTodosFromDropbox after filesDownload settled: the returned value
\* and the indicator update of the failure branch
DownloadValue(c, ok) ==
  IF ok /\ c.remote[c.p.path].exists
  THEN JsString(c.remote[c.p.path].content)
  ELSE JsNull

DownloadSettled(c, ok) ==
  LET v == DownloadValue(c, ok)
      c1 == IF ok THEN c ELSE updateSyncIndicator(c, ERROR, NoPath)
  IN [c1 EXCEPT !.p.dlResult = v]

\* coordinateSync after `await downloadTodosFromDropbox(activeFilePath)`,
\* for its three download branches
AfterDownload(c) ==
  LET downloadResult == c.p.dlResult
      content == ContentProperty(downloadResult)
  IN IF Truthy(downloadResult) /\ content # JsNull
     THEN LET c1 == setLastSyncTime(saveTodosFromText(c, content), c.p.path)
          IN IF c.p.dlBranch = "newer"
             THEN Finally(c1, IDLE)
             ELSE Finally(clearUploadPending(c1, c.p.path), IDLE)
     ELSE Finally(c, ERROR)

\* coordinateSync: a download branch up to its await
CoordinatorDownload(c, branch) ==
  LET d == DownloadEnter(c, "dl", branch)
  IN IF d.sent THEN d.c
     ELSE AfterDownload([d.c EXCEPT !.p.dlBranch = branch, !.p.dlResult = JsNull])

\* variant of the decision table whose tolerance test excludes the boundary
Decide_StrictTolerance(c) ==
  LET localDate == c.p.localDate
      dropboxDate == c.p.dropboxDate
      path == c.p.path
      timeDiff == IF localDate >= dropboxDate THEN localDate - dropboxDate
                  ELSE dropboxDate - localDate
  IN IF dropboxDate = NoTime
     THEN IF localDate # NoTime
          THEN UploadEnter([c EXCEPT !.p.row = "push_initial"])
          ELSE Finally(clearUploadPending([c EXCEPT !.p.row = "nothing"], path), IDLE)
     ELSE IF localDate = NoTime
     THEN CoordinatorDownload([c EXCEPT !.p.row = "pull_initial"], "initial")
     ELSE IF timeDiff < buffer
     THEN Finally(clearUploadPending([c EXCEPT !.p.row = "tolerance"], path), IDLE)
     ELSE IF dropboxDate > localDate
     THEN IF PendingIn(c.pend, path)
          THEN [showConflictModal([c EXCEPT !.p.row = "conflict"],
                                  localDate, dropboxDate, path)
                  EXCEPT !.p.pc = "modal"]
          ELSE CoordinatorDownload(
                 updateSyncIndicator([c EXCEPT !.p.row = "pull_newer"], SYNCING, NoPath),
                 "newer")
     ELSE UploadEnter([c EXCEPT !.p.row = "push_newer"])

\* coordinateSync from the return of getDropboxFileMetadata to the next await
\* or to the end of the pass: the decision table
Decide(c) ==
  LET localDate == c.p.localDate
      dropboxDate == c.p.dropboxDate
      path == c.p.path
      timeDiff == IF localDate >= dropboxDate THEN localDate - dropboxDate
                  ELSE dropboxDate - localDate
  IN IF dropboxDate = NoTime
     THEN IF localDate # NoTime
          THEN UploadEnter([c EXCEPT !.p.row = "push_initial"])
          ELSE Finally(clearUploadPending([c EXCEPT !.p.row = "nothing"], path), IDLE)
     ELSE IF localDate = NoTime
     THEN CoordinatorDownload([c EXCEPT !.p.row = "pull_initial"], "initial")
     ELSE IF timeDiff <= buffer
     THEN Finally(clearUploadPending([c EXCEPT !.p.row = "tolerance"], path), IDLE)
     ELSE IF dropboxDate > localDate
     THEN IF PendingIn(c.pend, path)
          THEN [showConflictModal([c EXCEPT !.p.row = "conflict"],
                                  localDate, dropboxDate, path)
                  EXCEPT !.p.pc = "modal"]
          ELSE CoordinatorDownload(
                 updateSyncIndicator([c EXCEPT !.p.row = "pull_newer"], SYNCING, NoPath),
                 "newer")
     ELSE UploadEnter([c EXCEPT !.p.row = "push_newer"])

\* coordinateSync after `await showConflictModal(...)` resolved with a choice
AfterConflictChoice(c, userChoice) ==
  LET c1 == [c EXCEPT !.p.choice = userChoice]
  IN IF userChoice = "local" THEN UploadEnter(c1)
     ELSE IF userChoice = "dropbox"
     THEN CoordinatorDownload(updateSyncIndicator(c1, SYNCING, NoPath), "conflict")
     ELSE Finally(clearUploadPending(c1, c1.p.path), IDLE)

\* uploadTodosToDropbox after its own showConflictModal resolved
UploadAfterConflictChoice(c, userChoice) ==
  LET c1 == [c EXCEPT !.p.uChoice = userChoice]
  IN IF userChoice = "local" THEN ProceedWithUpload(c1)
     ELSE IF userChoice = "dropbox"
     THEN LET d == DownloadEnter(updateSyncIndicator(c1, SYNCING, NoPath),
                                 "u_dl", "upload")
          IN IF d.sent THEN d.c ELSE UploadFinally(d.c, ERROR)
     ELSE UploadFinally(c1, IDLE)

\* variant in which the upload goes on to filesUpload after its download
\* has replaced the local content
UploadAfterDownload_ThenUploads(c) ==
  LET dropboxContent == c.p.dlResult
  IN IF dropboxContent # JsNull
     THEN ProceedWithUpload(
            clearUploadPending(saveTodosFromText(c, dropboxContent), c.p.path))
     ELSE UploadFinally(c, ERROR)

\* uploadTodosToDropbox after its download returned
UploadAfterDownload(c) ==
  LET dropboxContent == c.p.dlResult
  IN IF dropboxContent # JsNull
     THEN UploadFinally(
            clearUploadPending(saveTodosFromText(c, dropboxContent), c.p.path),
            IDLE)
     ELSE UploadFinally(c, ERROR)

\* ------------------------------------------------------------ initial state
\* A running, authenticated client: API instance created, no file saved yet,
\* nothing on the remote store, indicator as initializeOfflineHandling leaves
\* it when online, logged in and nothing pending.
InitWith(credential, onLine, api, status) ==
  /\ now = 0
  /\ online = onLine
  /\ dbx = api
  /\ activeFile = FileA
  /\ knownFiles = Files
  /\ todos = [f \in Paths |-> <<>>]
  /\ localLastModified = [f \in Paths |-> NoTime]
  /\ pendingStore = {}
  /\ remote = [f \in Paths |-> NoRemote]
  /\ currentSyncStatus = status
  /\ currentFilePath = FileA
  /\ syncDebounceTimer = NoTime
  /\ armedTimers = {}
  /\ conflictResolver = 0
  /\ pass = [i \in PassIds |-> IdlePass]
  /\ events = 0
  /\ dirty = [f \in Paths |-> [l |-> FALSE, r |-> FALSE]]
  /\ auth = credential
  /\ authCall = IdleCall

Init == InitWith(LoggedIn, TRUE, TRUE, IDLE)

\* ------------------------------------------------------------------ actions
Suspended == {"o_import", "meta", "modal", "dl", "u_import", "u_meta",
              "u_modal", "u_dl", "u_put"}
InFlight == Suspended \ {"o_import"}

\* positions of the handlers of todo-files.js
FileOpSuspended == {"a_import", "r_import", "r_move", "d_import", "d_delete"}

FreeSlots == {i \in PassIds : pass[i].pc \notin Suspended \cup FileOpSuspended}
HasFreeSlot == FreeSlots # {}
FreeSlot == CHOOSE i \in FreeSlots : \A j \in FreeSlots : i <= j

\* A call chain that reached its end hands control back before any other
\* event is dispatched (the continuation of the caller is a micro-task).
Quiet == \A i \in PassIds : pass[i].pc \notin {"done", "a_uploaded"}

\* unchanged parts, by kind of action
EnvUnch == <<now, online, dbx, activeFile, knownFiles, events>>

\* coordinateSync from its entry to `await getDropboxFileMetadata(...)`
coordinateSyncStart(c0) ==
  LET c == [clearDebounceTimer(c0) EXCEPT !.p = IdlePass]
      activeFilePath == activeFile
  IN IF activeFilePath = NoPath
     THEN [updateSyncIndicator(c, ERROR, NoPath)
             EXCEPT !.p.pc = "done", !.p.row = "no_file"]
     ELSE IF ~getDbxInstance
     THEN [c EXCEPT !.p.pc = "done", !.p.row = "no_dbx", !.p.path = activeFilePath]
     ELSE IF ~online
     THEN [updateSyncIndicator(c, OFFLINE, activeFilePath)
             EXCEPT !.p.pc = "done", !.p.row = "offline", !.p.path = activeFilePath]
     ELSE [updateSyncIndicator(c, SYNCING, activeFilePath)
             EXCEPT !.p.pc = "meta", !.p.path = activeFilePath,
                    !.p.localDate = c.lmod[activeFilePath],
                    !.p.startPending = PendingIn(c.pend, activeFilePath)]

\* variant in which the due timer is dropped without its callback being run
TimerFire_DropsCallback ==
  /\ Quiet
  /\ HasFreeSlot
  /\ \E deadline \in armedTimers :
       /\ now >= deadline
       /\ Commit([Ctx(FreeSlot) EXCEPT !.armed = @ \ {deadline},
                                       !.timer = NoTime])
  /\ UNCHANGED EnvUnch

\* The debounce timer fires: its callback calls coordinateSync.
TimerFire ==
  /\ Quiet
  /\ HasFreeSlot
  /\ \E deadline \in armedTimers :
       /\ now >= deadline
       /\ Commit(coordinateSyncStart(
                   [Ctx(FreeSlot) EXCEPT !.armed = @ \ {deadline}]))
  /\ UNCHANGED EnvUnch

\* getDropboxFileMetadata settles inside coordinateSync; every failure,
\* path/not_found included, makes it return null.
MetadataReturn(i, res) ==
  /\ Quiet
  /\ pass[i].pc = "meta"
  /\ res \in {"ok", "auth"} => online
  /\ LET c == Ctx(i)
         ok == res = "ok"
         meta == c.remote[c.p.path]
         dropboxDate == IF ok /\ meta.exists THEN meta.server_modified ELSE NoTime
     IN Commit(Decide([c EXCEPT !.p.dropboxDate = dropboxDate,
                                !.p.bothDirty = ok /\ c.dirty[c.p.path].l
                                                   /\ c.dirty[c.p.path].r]))
  /\ UNCHANGED EnvUnch

\* downloadTodosFromDropbox settles inside coordinateSync
DownloadReturn(i, ok) ==
  /\ Quiet
  /\ pass[i].pc = "dl"
  /\ ok => online
  /\ Commit(AfterDownload(DownloadSettled(Ctx(i), ok)))
  /\ UNCHANGED EnvUnch

\* uploadTodosToDropbox: the dynamic imports resolve; the timestamp of the
\* ACTIVE file is read and the metadata of filePath is requested
UploadImportReturn(i) ==
  /\ Quiet
  /\ pass[i].pc = "u_import"
  /\ LET c == [Ctx(i) EXCEPT !.p.uLocalDate = localLastModified[activeFile]]
     IN IF ~dbx
        THEN Commit(UploadAfterMetadata([c EXCEPT !.p.uDropboxDate = NoTime]))
        ELSE Commit([c EXCEPT !.p.pc = "u_meta"])
  /\ UNCHANGED EnvUnch

\* getDropboxFileMetadata settles inside uploadTodosToDropbox
UploadMetadataReturn(i, ok) ==
  /\ Quiet
  /\ pass[i].pc = "u_meta"
  /\ ok => online
  /\ LET c == Ctx(i)
         meta == c.remote[c.p.path]
         dropboxDate == IF ok /\ meta.exists THEN meta.server_modified ELSE NoTime
     IN Commit(UploadAfterMetadata([c EXCEPT !.p.uDropboxDate = dropboxDate]))
  /\ UNCHANGED EnvUnch

\* dbx.filesUpload settles: overwrite of the remote file, or an exception
UploadPutReturn(i, ok) ==
  /\ Quiet
  /\ pass[i].pc = "u_put"
  /\ ok => online
  /\ LET c == Ctx(i)
     IN IF ok
        THEN Commit(UploadFinally(
               clearUploadPending(
                 Reconciled(
                   [c EXCEPT !.remote[c.p.path] = RemoteFile(c.p.upContent, now),
                             !.p.putOk = TRUE],
                   c.p.path),
                 c.p.path),
               IDLE))
        ELSE Commit(UploadFinally(c, ERROR))
  /\ UNCHANGED EnvUnch

\* downloadTodosFromDropbox settles inside uploadTodosToDropbox
UploadDownloadReturn(i, ok) ==
  /\ Quiet
  /\ pass[i].pc = "u_dl"
  /\ ok => online
  /\ Commit(UploadAfterDownload(DownloadSettled(Ctx(i), ok)))
  /\ UNCHANGED EnvUnch

\* A click in the conflict modal: 'local', 'dropbox', or "cancel" for the
\* close button.  Only the promise of the stored resolver is settled.
UserChoice(userChoice) ==
  /\ Quiet
  /\ conflictResolver # 0
  /\ LET i == conflictResolver
         c == [Ctx(i) EXCEPT !.resolver = 0]
     IN IF pass[i].pc = "modal"
        THEN Commit(AfterConflictChoice(c, userChoice))
        ELSE Commit(UploadAfterConflictChoice(c, userChoice))
  /\ UNCHANGED EnvUnch

\* The user saves the active file (add, edit, toggle or delete of a todo).
LocalWrite(list) ==
  /\ Quiet
  /\ events < MaxEvents
  /\ Commit(EditedLocally(saveTodosToStorage(Ctx(1), list), activeFile))
  /\ events' = events + 1
  /\ UNCHANGED <<now, online, dbx, activeFile, knownFiles>>

\* A save of a tracked file that is not the active one.
LocalWriteNonActive(f, list) ==
  /\ Quiet
  /\ events < MaxEvents
  /\ f # activeFile
  /\ Commit(EditedLocally(writeAllTasks(Ctx(1), f, list), f))
  /\ events' = events + 1
  /\ UNCHANGED <<now, online, dbx, activeFile, knownFiles>>

\* Another client writes the file on the remote store.
RemoteChange(f, t) ==
  /\ Quiet
  /\ events < MaxEvents
  /\ remote' = [remote EXCEPT ![f] = RemoteFile(t, now)]
  /\ dirty' = [dirty EXCEPT ![f].r = TRUE]
  /\ events' = events + 1
  /\ UNCHANGED <<now, online, dbx, activeFile, knownFiles, todos, localLastModified,
                 pendingStore, currentSyncStatus,
                 currentFilePath, syncDebounceTimer, armedTimers, conflictResolver, pass,
                 auth, authCall>>
\* variant of handleOfflineStatus that leaves the indicator alone while a
\* pass is in flight
GoOffline_NotDuringPass ==
  /\ Quiet
  /\ online
  /\ events < MaxEvents
  /\ events' = events + 1
  /\ online' = FALSE
  /\ Commit(IF \E i \in PassIds : pass[i].pc \in InFlight
            THEN Ctx(1)
            ELSE updateSyncIndicator(Ctx(1), OFFLINE, activeFile))
  /\ UNCHANGED <<now, dbx, activeFile, knownFiles>>

\* handleOfflineStatus
GoOffline ==
  /\ Quiet
  /\ online
  /\ events < MaxEvents
  /\ events' = events + 1
  /\ online' = FALSE
  /\ Commit(updateSyncIndicator(Ctx(1), OFFLINE, activeFile))
  /\ UNCHANGED <<now, dbx, activeFile, knownFiles>>

\* variant of handleOnlineStatus that never looks at the pending flag
GoOnline_IgnoresPending ==
  /\ Quiet
  /\ ~online
  /\ events < MaxEvents
  /\ events' = events + 1
  /\ online' = TRUE
  /\ Commit(updateSyncIndicator(Ctx(1), IDLE, activeFile))
  /\ UNCHANGED <<now, dbx, activeFile, knownFiles>>

\* handleOnlineStatus up to `await import(...)`.  getAccessToken is async, so
\* the value tested by `if (!accessToken)` is a promise and never falsy.
GoOnline ==
  /\ Quiet
  /\ ~online
  /\ events < MaxEvents
  /\ events' = events + 1
  /\ online' = TRUE
  /\ IF isUploadPending(activeFile)
     THEN /\ HasFreeSlot
          /\ Commit([Ctx(FreeSlot) EXCEPT !.p = [IdlePass EXCEPT !.pc = "o_import"]])
     ELSE Commit(updateSyncIndicator(Ctx(1), IDLE, activeFile))
  /\ UNCHANGED <<now, dbx, activeFile, knownFiles>>

\* handleOnlineStatus: the import resolved, coordinateSync is called
OnlineImportReturn(i) ==
  /\ Quiet
  /\ pass[i].pc = "o_import"
  /\ Commit(coordinateSyncStart(Ctx(i)))
  /\ UNCHANGED EnvUnch

\* click on another file of the sidebar (updateFileSelectionUI)
SwitchFile(f) ==
  /\ Quiet
  /\ f \in knownFiles
  /\ f # activeFile
  /\ events < MaxEvents
  /\ events' = events + 1
  /\ activeFile' = f
  /\ UNCHANGED <<now, online, dbx, knownFiles, todos, localLastModified,
                 pendingStore, remote, currentSyncStatus, currentFilePath,
                 syncDebounceTimer, armedTimers, conflictResolver, pass, dirty,
                 auth, authCall>>

\* The user presses the logout button: logoutFromDropbox runs, and its call
\* initializeDropboxApi(null) drops the API instance.
Logout ==
  /\ Quiet
  /\ authCall.pc = "idle"
  /\ dbx
  /\ events < MaxEvents
  /\ events' = events + 1
  /\ AuthCommit(logoutFromDropbox(Ctx(1)))
  /\ UNCHANGED <<now, online, activeFile, knownFiles>>

\* time passes
Tick ==
  /\ Quiet
  /\ now < MaxTime
  /\ now' = now + TickMs
  /\ UNCHANGED <<online, dbx, activeFile, knownFiles, todos, localLastModified,
                 pendingStore, remote, currentSyncStatus,
                 currentFilePath, syncDebounceTimer, armedTimers, conflictResolver, pass,
                 events, dirty, auth, authCall>>

\* The async function returns: its call chain is over.
Return(i) ==
  /\ pass[i].pc = "done"
  /\ pass' = [pass EXCEPT ![i] = IdlePass]
  /\ UNCHANGED <<now, online, dbx, activeFile, knownFiles, todos, localLastModified,
                 pendingStore, remote, currentSyncStatus, currentFilePath,
                 syncDebounceTimer, armedTimers, conflictResolver, events, dirty,
                 auth, authCall>>

Choices == {"local", "dropbox", "cancel"}

Next ==
  \/ TimerFire
  \/ \E i \in PassIds, res \in MetaResults : MetadataReturn(i, res)
  \/ \E i \in PassIds, ok \in BOOLEAN : DownloadReturn(i, ok)
  \/ \E i \in PassIds : UploadImportReturn(i)
  \/ \E i \in PassIds, ok \in BOOLEAN : UploadMetadataReturn(i, ok)
  \/ \E i \in PassIds, ok \in BOOLEAN : UploadPutReturn(i, ok)
  \/ \E i \in PassIds, ok \in BOOLEAN : UploadDownloadReturn(i, ok)
  \/ \E ch \in Choices : UserChoice(ch)
  \/ \E l \in EditLists : LocalWrite(l)
  \/ \E f \in Files, l \in EditLists : LocalWriteNonActive(f, l)
  \/ \E f \in Files, t \in RemoteTexts : RemoteChange(f, t)
  \/ GoOffline
  \/ GoOnline
  \/ \E i \in PassIds : OnlineImportReturn(i)
  \/ \E f \in Files : SwitchFile(f)
  \/ Logout
  \/ Tick
  \/ \E i \in PassIds : Return(i)

Spec == Init /\ [][Next]_vars

\* The same program when every gateway call succeeds (a call made while the
\* client is offline stays outstanding until the client is online again).
ReliableNext ==
  \/ TimerFire
  \/ \E i \in PassIds : MetadataReturn(i, "ok")
  \/ \E i \in PassIds : DownloadReturn(i, TRUE)
  \/ \E i \in PassIds : UploadImportReturn(i)
  \/ \E i \in PassIds : UploadMetadataReturn(i, TRUE)
  \/ \E i \in PassIds : UploadPutReturn(i, TRUE)
  \/ \E i \in PassIds : UploadDownloadReturn(i, TRUE)
  \/ \E ch \in Choices : UserChoice(ch)
  \/ \E l \in EditLists : LocalWrite(l)
  \/ \E f \in Files, l \in EditLists : LocalWriteNonActive(f, l)
  \/ \E f \in Files, t \in RemoteTexts : RemoteChange(f, t)
  \/ GoOffline
  \/ GoOnline
  \/ \E i \in PassIds : OnlineImportReturn(i)
  \/ \E f \in Files : SwitchFile(f)
  \/ Logout
  \/ Tick
  \/ \E i \in PassIds : Return(i)

ReliableSpec == Init /\ [][ReliableNext]_vars

\* The same program for a user who stays on the active file, with nobody
\* else writing to the remote store and no logout: no other file is selected
\* or written.
SingleFileNext ==
  \/ TimerFire
  \/ \E i \in PassIds, res \in MetaResults : MetadataReturn(i, res)
  \/ \E i \in PassIds, ok \in BOOLEAN : DownloadReturn(i, ok)
  \/ \E i \in PassIds : UploadImportReturn(i)
  \/ \E i \in PassIds, ok \in BOOLEAN : UploadMetadataReturn(i, ok)
  \/ \E i \in PassIds, ok \in BOOLEAN : UploadPutReturn(i, ok)
  \/ \E i \in PassIds, ok \in BOOLEAN : UploadDownloadReturn(i, ok)
  \/ \E ch \in Choices : UserChoice(ch)
  \/ \E l \in EditLists : LocalWrite(l)
  \/ GoOffline
  \/ GoOnline
  \/ \E i \in PassIds : OnlineImportReturn(i)
  \/ Tick
  \/ \E i \in PassIds : Return(i)

SingleFileSpec == Init /\ [][SingleFileNext]_vars
\* The single-file program with the scheduling the browser gives: time
\* passes, a timer that is due gets its callback run, every gateway call
\* settles and resumes its call chain, and the user answers the dialog on
\* display (only a bounded number of call chains can be suspended at once,
\* so a chain left at the dialog would keep a due callback from being run).
CallChainStep ==
  \/ \E i \in PassIds, res \in MetaResults : MetadataReturn(i, res)
  \/ \E i \in PassIds, ok \in BOOLEAN : DownloadReturn(i, ok)
  \/ \E i \in PassIds : UploadImportReturn(i)
  \/ \E i \in PassIds, ok \in BOOLEAN : UploadMetadataReturn(i, ok)
  \/ \E i \in PassIds, ok \in BOOLEAN : UploadPutReturn(i, ok)
  \/ \E i \in PassIds, ok \in BOOLEAN : UploadDownloadReturn(i, ok)
  \/ \E ch \in Choices : UserChoice(ch)
  \/ \E i \in PassIds : OnlineImportReturn(i)
  \/ \E i \in PassIds : Return(i)

FairSingleFileSpec ==
  /\ SingleFileSpec
  /\ WF_vars(Tick)
  /\ WF_vars(TimerFire)
  /\ WF_vars(CallChainStep)

\* The same program in a session that holds no refresh token.
AccessOnlyInit == InitWith(AccessOnly, TRUE, TRUE, IDLE)
AccessOnlySpec == AccessOnlyInit /\ [][Next]_vars
\* ----------------------------------------------- the calls of dropbox/auth.js
\* The page loads: the module variables are read from storage, no API
\* instance exists, the indicator is in its initial state and
\* initializeAuthentication runs.
InitializeAuthentication(params) ==
  /\ authCall.pc = "idle"
  /\ LET c == [Ctx(1) EXCEPT !.dbx = FALSE, !.status = NOT_CONNECTED,
                             !.spath = NoPath,
                             !.auth.accessToken = auth.ACCESS_TOKEN_KEY,
                             !.auth.refreshToken = auth.REFRESH_TOKEN_KEY,
                             !.call = EnterCall("init",
                               Credential(auth.ACCESS_TOKEN_KEY,
                                          auth.REFRESH_TOKEN_KEY, NoToken))]
     IN AuthCommit(handleRedirect(c, params))
  /\ UNCHANGED <<now, online, activeFile, knownFiles, events>>

\* dbxAuth.getAccessTokenFromCode settles inside handleRedirect
ExchangeReturn(ok) ==
  /\ authCall.pc = "exchange"
  /\ ok => online
  /\ AuthCommit(IF ok THEN ExchangeResolved(Ctx(1)) ELSE ExchangeRejected(Ctx(1)))
  /\ UNCHANGED <<now, online, activeFile, knownFiles, events>>

\* getAccessToken is called
GetAccessToken ==
  /\ authCall.pc = "idle"
  /\ AuthCommit(getAccessToken(
       [Ctx(1) EXCEPT !.call = EnterCall("getToken", auth)]))
  /\ UNCHANGED <<now, online, activeFile, knownFiles, events>>

\* dbxAuth.refreshAccessToken settles inside refreshAccessToken
RefreshReturn(ok) ==
  /\ authCall.pc = "refresh"
  /\ ok => online
  /\ LET c == [Ctx(1) EXCEPT !.call.refreshOk = IF ok THEN "ok" ELSE "failed"]
     IN AuthCommit(IF ok THEN RefreshResolved(c) ELSE RefreshRejected(c))
  /\ UNCHANGED <<now, online, activeFile, knownFiles, events>>

\* dbx.filesListFolder settles inside discoverDropboxFiles. The files it
\* lists are added to the known files, which no part of this model reads.
ListReturn(res) ==
  /\ authCall.pc = "list"
  /\ res \in {"ok", "auth"} => online
  /\ (res = "auth" /\ auth.refreshToken # NoToken) => authCall.nList < MaxListings
  /\ AuthCommit(IF res = "ok"
                THEN [Ctx(1) EXCEPT !.call.pc = "done"]
                ELSE DiscoverCatch(Ctx(1), res))
  /\ UNCHANGED <<now, online, activeFile, knownFiles, events>>

\* syncWithDropbox settles inside initializeDropboxApi: its finally block
\* sets the indicator to Idle or to Error
InitialSyncReturn(finalStatus) ==
  /\ authCall.pc = "init_sync"
  /\ AuthCommit(AfterApiInit(updateSyncIndicator(Ctx(1), finalStatus, NoPath)))
  /\ UNCHANGED <<now, online, activeFile, knownFiles, events>>

\* The call of the module returns: its call chain is over.
AuthReturn ==
  /\ authCall.pc = "done"
  /\ authCall' = IdleCall
  /\ UNCHANGED <<now, online, dbx, activeFile, knownFiles, todos, localLastModified,
                 pendingStore, remote, currentSyncStatus, currentFilePath,
                 syncDebounceTimer, armedTimers, conflictResolver, pass, events, dirty,
                 auth>>

\* The credential manager on its own: any credential the storage can hold,
\* any indicator state, online or not; an API instance only with an access
\* token.
AuthInit ==
  \E at \in AccessTokens, rt \in RefreshTokens, v \in Verifiers,
     onLine \in BOOLEAN, api \in BOOLEAN, status \in SyncStatus :
    /\ api => at # NoToken
    /\ InitWith(Credential(at, rt, v), onLine, api, status)

AuthNext ==
  \/ \E params \in RedirectParams : InitializeAuthentication(params)
  \/ \E ok \in BOOLEAN : ExchangeReturn(ok)
  \/ GetAccessToken
  \/ \E ok \in BOOLEAN : RefreshReturn(ok)
  \/ \E res \in MetaResults : ListReturn(res)
  \/ \E finalStatus \in {IDLE, ERROR} : InitialSyncReturn(finalStatus)
  \/ Logout
  \/ AuthReturn

AuthSpec == AuthInit /\ [][AuthNext]_vars
\* ------------------------------------------------------------ todo-files.js
\* The handlers of the add-file, rename-file and delete-file modals.  Each
\* runs as a call chain of its own; pass[i].caller names the handler,
\* pass[i].path the file it works on.

\* add-file handler, `setActiveFile(newFilePath); saveTodosToStorage([]);
\* setActiveFile(originalActiveFile)`: the save and the localDataChanged
\* handler it triggers run while newFilePath is the active file.
SaveEmptyAs(c, newFilePath) ==
  LET c1 == [c EXCEPT !.todos[newFilePath] = <<>>, !.lmod[newFilePath] = now]
      c2 == IF ~online
            THEN updateSyncIndicator(
                   [c1 EXCEPT !.pend = @ \cup {getDynamicPendingKey(newFilePath)}],
                   PENDING, newFilePath)
            ELSE c1
  IN setDebounceTimer(clearDebounceTimer(c2))

\* add-file handler from the resolution of its dynamic import to the first
\* await inside `apiUpload(newFilePath)`
AddFileAfterImport(c) ==
  UploadEnter([SaveEmptyAs(c, c.p.path) EXCEPT !.p.activeAtCall = activeFile])

\* The store's rename of a known file: the record of the file is re-keyed,
\* and its ledger entry and displayed status go with it.
renameKnownFile(c, oldFilePath, newFilePath) ==
  LET oldKey == getDynamicPendingKey(oldFilePath)
  IN [c EXCEPT !.todos[newFilePath] = c.todos[oldFilePath],
               !.todos[oldFilePath] = <<>>,
               !.lmod[newFilePath] = c.lmod[oldFilePath],
               !.lmod[oldFilePath] = NoTime,
               !.dirty[newFilePath] = c.dirty[oldFilePath],
               !.dirty[oldFilePath] = [l |-> FALSE, r |-> FALSE],
               !.pend = IF oldKey \in c.pend
                        THEN (@ \ {oldKey}) \cup {getDynamicPendingKey(newFilePath)}
                        ELSE @,
               !.spath = IF @ = oldFilePath THEN newFilePath ELSE @]

\* The store's removal of a known file: its list and timestamp are dropped.
removeKnownFile(c, filePath) ==
  [c EXCEPT !.todos[filePath] = <<>>, !.lmod[filePath] = NoTime,
            !.dirty[filePath] = [l |-> FALSE, r |-> FALSE]]

\* The user submits the add-file form with a name that is not known yet; the
\* handler hides the modal and awaits the import of dropbox/api.js.
AddFileSubmit(f) ==
  /\ Quiet
  /\ events < MaxEvents
  /\ HasFreeSlot
  /\ f \notin knownFiles
  /\ events' = events + 1
  /\ Commit([Ctx(FreeSlot) EXCEPT
               !.p = [IdlePass EXCEPT !.pc = "a_import", !.caller = "addFile",
                                      !.path = f]])
  /\ UNCHANGED <<now, online, dbx, activeFile, knownFiles>>

\* add-file handler: the import resolves; the empty list is saved under the
\* new path and uploadTodosToDropbox(newFilePath) is called
AddFileImportReturn(i) ==
  /\ Quiet
  /\ pass[i].pc = "a_import"
  /\ Commit(AddFileAfterImport(Ctx(i)))
  /\ UNCHANGED EnvUnch

\* add-file handler after `await apiUpload(newFilePath)`: addKnownFile and
\* setActiveFile(newFilePath)
AddFileUploaded(i) ==
  /\ pass[i].pc = "a_uploaded"
  /\ knownFiles' = knownFiles \cup {pass[i].path}
  /\ activeFile' = pass[i].path
  /\ pass' = [pass EXCEPT ![i].pc = "done"]
  /\ UNCHANGED <<now, online, dbx, todos, localLastModified,
                 pendingStore, remote, currentSyncStatus, currentFilePath,
                 syncDebounceTimer, armedTimers, conflictResolver, events, dirty,
                 auth, authCall>>

\* The user submits the rename form for the active file with a new name
\* that is not known; localOk is what renameKnownFile returns.  After a
\* local success the handler awaits the import of dropbox/api.js.
RenameSubmit(newFilePath, localOk) ==
  /\ Quiet
  /\ events < MaxEvents
  /\ HasFreeSlot
  /\ activeFile # DEFAULT_FILE_PATH
  /\ newFilePath # activeFile
  /\ newFilePath \notin knownFiles
  /\ events' = events + 1
  /\ LET oldFilePath == activeFile
         c == [Ctx(FreeSlot) EXCEPT
                 !.p = [IdlePass EXCEPT !.caller = "renameFile",
                                        !.path = oldFilePath,
                                        !.newPath = newFilePath]]
     IN IF localOk
        THEN /\ Commit([renameKnownFile(c, oldFilePath, newFilePath)
                          EXCEPT !.p.pc = "r_import", !.p.localRename = "ok"])
             /\ knownFiles' = (knownFiles \ {oldFilePath}) \cup {newFilePath}
             /\ activeFile' = newFilePath
        ELSE /\ Commit([c EXCEPT !.p.pc = "done", !.p.localRename = "failed"])
             /\ UNCHANGED <<knownFiles, activeFile>>
  /\ UNCHANGED <<now, online, dbx>>

\* rename handler: the import resolves and renameDropboxFile runs up to its
\* filesMoveV2 call; without an API instance it returns false at once and
\* the handler shows its warning.
RenameImportReturn(i) ==
  /\ Quiet
  /\ pass[i].pc = "r_import"
  /\ LET c == Ctx(i)
     IN IF ~dbx \/ c.p.path = NoPath \/ c.p.newPath = NoPath
           \/ c.p.path = c.p.newPath
        THEN Commit([c EXCEPT !.p.pc = "done", !.p.remoteOk = "false",
                              !.p.warned = TRUE])
        ELSE Commit([c EXCEPT !.p.pc = "r_move", !.p.nRemote = @ + 1])
  /\ UNCHANGED EnvUnch

\* variant of the rename handler that undoes the local rename when the
\* remote rename failed
MoveReturn_RevertsLocal(i, ok) ==
  /\ Quiet
  /\ pass[i].pc = "r_move"
  /\ ok => /\ online
           /\ remote[pass[i].path].exists
           /\ ~remote[pass[i].newPath].exists
  /\ LET c == Ctx(i)
     IN IF ok
        THEN /\ Commit([c EXCEPT !.remote[c.p.newPath] = c.remote[c.p.path],
                                 !.remote[c.p.path] = NoRemote,
                                 !.p.pc = "done", !.p.remoteOk = "true"])
             /\ UNCHANGED <<knownFiles, activeFile>>
        ELSE /\ Commit([renameKnownFile(c, c.p.newPath, c.p.path)
                          EXCEPT !.p.pc = "done", !.p.remoteOk = "false",
                                 !.p.warned = TRUE])
             /\ knownFiles' = (knownFiles \ {c.p.newPath}) \cup {c.p.path}
             /\ activeFile' = IF activeFile = c.p.newPath THEN c.p.path
                              ELSE activeFile
  /\ UNCHANGED <<now, online, dbx, events>>

\* dbx.filesMoveV2 settles inside renameDropboxFile: the remote file moves
\* (autorename is off, so an existing target is an error), or the call
\* fails, renameDropboxFile returns false and the handler shows its warning.
MoveReturn(i, ok) ==
  /\ Quiet
  /\ pass[i].pc = "r_move"
  /\ ok => /\ online
           /\ remote[pass[i].path].exists
           /\ ~remote[pass[i].newPath].exists
  /\ LET c == Ctx(i)
     IN IF ok
        THEN Commit([c EXCEPT !.remote[c.p.newPath] = c.remote[c.p.path],
                              !.remote[c.p.path] = NoRemote,
                              !.p.pc = "done", !.p.remoteOk = "true"])
        ELSE Commit([c EXCEPT !.p.pc = "done", !.p.remoteOk = "false",
                              !.p.warned = TRUE])
  /\ UNCHANGED <<now, online, dbx, activeFile, knownFiles, events>>

\* The user confirms the deletion of a known file other than the default
\* one; the handler hides the modal and awaits the import of dropbox/api.js.
DeleteConfirm(f) ==
  /\ Quiet
  /\ events < MaxEvents
  /\ HasFreeSlot
  /\ f \in knownFiles
  /\ f # DEFAULT_FILE_PATH
  /\ events' = events + 1
  /\ Commit([Ctx(FreeSlot) EXCEPT
               !.p = [IdlePass EXCEPT !.pc = "d_import", !.caller = "deleteFile",
                                      !.path = f]])
  /\ UNCHANGED <<now, online, dbx, activeFile, knownFiles>>

\* delete handler after the remote attempt: removeKnownFile (which makes the
\* default file active when the active one went away), then the success
\* notification and, after a failed attempt, the warning
DeleteLocally(c, dropboxDeleteSuccess) ==
  /\ Commit([removeKnownFile(c, c.p.path)
               EXCEPT !.p.pc = "done",
                      !.p.remoteOk = IF dropboxDeleteSuccess THEN "true" ELSE "false",
                      !.p.warned = ~dropboxDeleteSuccess])
  /\ knownFiles' = knownFiles \ {c.p.path}
  /\ activeFile' = IF activeFile = c.p.path THEN DEFAULT_FILE_PATH ELSE activeFile

\* delete handler: the import resolves and deleteDropboxFile runs up to its
\* filesDeleteV2 call; without an API instance it returns false at once.
DeleteImportReturn(i) ==
  /\ Quiet
  /\ pass[i].pc = "d_import"
  /\ LET c == Ctx(i)
     IN IF ~dbx \/ c.p.path = NoPath
        THEN DeleteLocally(c, FALSE)
        ELSE /\ Commit([c EXCEPT !.p.pc = "d_delete", !.p.nRemote = @ + 1])
             /\ UNCHANGED <<knownFiles, activeFile>>
  /\ UNCHANGED <<now, online, dbx, events>>

\* variant of the delete handler that keeps the file when the remote delete
\* failed
DeleteReturn_KeepsOnFailure(i, ok) ==
  /\ Quiet
  /\ pass[i].pc = "d_delete"
  /\ ok => online /\ remote[pass[i].path].exists
  /\ LET c == Ctx(i)
     IN IF ok
        THEN DeleteLocally([c EXCEPT !.remote[c.p.path] = NoRemote], TRUE)
        ELSE /\ Commit([c EXCEPT !.p.pc = "done", !.p.remoteOk = "false",
                                 !.p.warned = TRUE])
             /\ UNCHANGED <<knownFiles, activeFile>>
  /\ UNCHANGED <<now, online, dbx, events>>

\* dbx.filesDeleteV2 settles inside deleteDropboxFile: the remote file is
\* gone, or the call fails and deleteDropboxFile returns false.
DeleteReturn(i, ok) ==
  /\ Quiet
  /\ pass[i].pc = "d_delete"
  /\ ok => online /\ remote[pass[i].path].exists
  /\ LET c == Ctx(i)
     IN IF ok
        THEN DeleteLocally([c EXCEPT !.remote[c.p.path] = NoRemote], TRUE)
        ELSE DeleteLocally(c, FALSE)
  /\ UNCHANGED <<now, online, dbx, events>>

\* The file handlers of the sidebar with the gateway calls they make, next
\* to the events that change what those calls meet, all within one tick of
\* the clock (no timer fires and no timestamp grows in such a run).
FilesNext ==
  \/ \E f \in Paths : AddFileSubmit(f)
  \/ \E i \in PassIds : AddFileImportReturn(i)
  \/ \E i \in PassIds : AddFileUploaded(i)
  \/ \E f \in Paths, localOk \in BOOLEAN : RenameSubmit(f, localOk)
  \/ \E i \in PassIds : RenameImportReturn(i)
  \/ \E i \in PassIds, ok \in BOOLEAN : MoveReturn(i, ok)
  \/ \E f \in Paths : DeleteConfirm(f)
  \/ \E i \in PassIds : DeleteImportReturn(i)
  \/ \E i \in PassIds, ok \in BOOLEAN : DeleteReturn(i, ok)
  \/ \E i \in PassIds : UploadImportReturn(i)
  \/ \E i \in PassIds, ok \in BOOLEAN : UploadMetadataReturn(i, ok)
  \/ \E i \in PassIds, ok \in BOOLEAN : UploadPutReturn(i, ok)
  \/ \E l \in EditLists : LocalWrite(l)
  \/ \E f \in Paths, t \in RemoteTexts : RemoteChange(f, t)
  \/ \E f \in Paths : SwitchFile(f)
  \/ GoOffline
  \/ Logout
  \/ \E i \in PassIds : Return(i)

FilesSpec == Init /\ [][FilesNext]_vars
\* ------------------------------------------- exceptions inside coordinateSync
\* Statements inside the try block of coordinateSync that can throw: the
\* reads and writes of the store (getTodosFromStorage before an upload,
\* saveTodosFromText and loadTodos after a download) and showConflictModal,
\* which returns a rejected promise when the modal cannot be shown.
\* pass[i].thrown records which handler caught the exception and
\* pass[i].errorMessage which text goes to the indicator: the message of
\* the exception, or a text of the pass's own.

\* variant of the outer catch block without the finally block behind it
CatchOuter_NoFinally(c) ==
  [c EXCEPT !.p.pc = "done", !.p.thrown = "outer",
            !.p.errorMessage = "exception", !.p.finalStatus = ERROR,
            !.p.endPending = PendingIn(c.pend, c.p.path)]

\* catch block of coordinateSync: finalStatus = ERROR, errorMessage =
\* error.message, then the finally block
CatchOuter(c) ==
  Finally([c EXCEPT !.p.thrown = "outer", !.p.errorMessage = "exception"], ERROR)

\* catch block around the conflict resolution: alert, finalStatus = ERROR and
\* a fixed errorMessage, then the finally block
CatchConflict(c) ==
  Finally([c EXCEPT !.p.thrown = "conflict", !.p.errorMessage = "pass"], ERROR)

\* getDropboxFileMetadata settles and the row chosen by the decision table
\* throws before its first await: getTodosFromStorage in the two push rows,
\* a rejected showConflictModal in the conflict row.
MetadataReturnThrows(i, res) ==
  /\ Quiet
  /\ pass[i].pc = "meta"
  /\ res \in {"ok", "auth"} => online
  /\ LET c0 == Ctx(i)
         ok == res = "ok"
         meta == c0.remote[c0.p.path]
         dropboxDate == IF ok /\ meta.exists THEN meta.server_modified ELSE NoTime
         c1 == [c0 EXCEPT !.p.dropboxDate = dropboxDate]
         row == Decide(c1).p.row
         c == [c1 EXCEPT !.p.row = row]
     IN /\ row \in {"push_initial", "push_newer", "conflict"}
        /\ Commit(IF row = "conflict" THEN CatchConflict(c) ELSE CatchOuter(c))
  /\ UNCHANGED EnvUnch

\* downloadTodosFromDropbox settles with the content and saveTodosFromText
\* (or loadTodos) throws: inside the conflict resolution for the 'dropbox'
\* choice, directly inside the try block for the two pull rows.
DownloadReturnThrows(i) ==
  /\ Quiet
  /\ pass[i].pc = "dl"
  /\ online
  /\ LET c == DownloadSettled(Ctx(i), TRUE)
     IN /\ Truthy(c.p.dlResult)
        /\ Commit(IF c.p.dlBranch = "conflict" THEN CatchConflict(c)
                  ELSE CatchOuter(c))
  /\ UNCHANGED EnvUnch

\* The coordinator in an environment where the store or the modal can throw.
ThrowNext ==
  \/ Next
  \/ \E i \in PassIds, res \in MetaResults : MetadataReturnThrows(i, res)
  \/ \E i \in PassIds : DownloadReturnThrows(i)

ThrowSpec == Init /\ [][ThrowNext]_vars
\* ------------------------------------------ the ledger of pending uploads
\* File paths as the ledger may be handed them: strings over '/', '_' and a
\* letter that start with '/', such as "/a/a" and "/a_a".
PathChars == {"/", "_", "a"}
LedgerPaths ==
  UNION {{p \in [1..n -> PathChars] : p[1] = "/"} : n \in 2..MaxPathLen}

\* The ledger is used online and offline.
LedgerInit ==
  \E on \in BOOLEAN : InitWith(LoggedIn, on, TRUE, IF on THEN IDLE ELSE OFFLINE)

\* a call of setUploadPending(filePath)
SetPending(filePath) ==
  /\ Commit(setUploadPending(Ctx(1), filePath))
  /\ UNCHANGED EnvUnch

\* a call of clearUploadPending(filePath)
ClearPending(filePath) ==
  /\ Commit(clearUploadPending(Ctx(1), filePath))
  /\ UNCHANGED EnvUnch

LedgerNext ==
  \/ \E p \in LedgerPaths : SetPending(p)
  \/ \E p \in LedgerPaths : ClearPending(p)

LedgerSpec == LedgerInit /\ [][LedgerNext]_vars

TypeOK ==
  /\ now \in 0..(MaxTime + TickMs)
  /\ online \in BOOLEAN /\ dbx \in BOOLEAN
  /\ activeFile \in Paths /\ knownFiles \subseteq Paths
  /\ currentSyncStatus \in SyncStatus
  /\ conflictResolver \in 0..MaxPasses
  /\ \A i \in PassIds :
       pass[i].pc \in Suspended \cup FileOpSuspended \cup {"idle", "done", "a_uploaded"}

\* ------------------------------------------------------------------ claims
\* A pass that got past its guards and took a row of the decision table.
GuardRows == {"none", "no_file", "no_dbx", "offline"}
Finished(i) == pass[i].pc = "done" /\ pass[i].row \notin GuardRows
AbsDiff(a, b) == IF a >= b THEN a - b ELSE b - a
BothDates(p) == p.localDate # NoTime /\ p.dropboxDate # NoTime

\* C1: at any time at most one sync pass that passed its guards and has not
\* reached its finally block is in flight for a given file.
C1_OnePassPerFile ==
  \A i, j \in PassIds :
    (i # j /\ pass[i].pc \in InFlight /\ pass[j].pc \in InFlight)
      => pass[i].path # pass[j].path

\* C2: in a finished pass where both timestamps exist and the remote one
\* exceeds the local one by more than 2000 ms: with no upload pending the
\* pass never prompts, and a download that delivered text has overwritten the
\* local content; with an upload pending the pass prompted exactly once, with
\* (local timestamp, remote timestamp, path), before any upload or download.
C2_RemoteNewerRow ==
  \A i \in PassIds :
    LET p == pass[i]
    IN (Finished(i) /\ BothDates(p) /\ p.dropboxDate > p.localDate + buffer)
         => /\ p.row = "pull_newer"
               => p.nPrompt = 0 /\ (p.dlResult.tag = "string" => p.wrote)
            /\ p.row = "conflict"
               => p.nPrompt = 1
                  /\ p.promptArgs = <<p.localDate, p.dropboxDate, p.path>>
                  /\ ~p.xferBeforePrompt

\* C3: a finished pass for a file that was modified both locally and remotely
\* since the two sides last agreed has shown the conflict dialog, and it
\* overwrote the local edits only if the user chose the remote side.
C3_BothModifiedPrompts ==
  \A i \in PassIds :
    LET p == pass[i]
    IN (Finished(i) /\ p.bothDirty)
         => /\ p.nPrompt >= 1
            /\ p.wrote => (p.choice = "dropbox" \/ p.uChoice = "dropbox")

\* C4: a pass whose conflict prompt was cancelled leaves the pending flag as
\* it was before the pass, writes no local content, issues no upload and no
\* download, and ends with status Idle.
C4_CancelLeavesState ==
  \A i \in PassIds :
    LET p == pass[i]
    IN (Finished(i) /\ p.choice = "cancel")
         => /\ p.endPending = p.startPending
            /\ ~p.wrote
            /\ p.nUploadCalls = 0 /\ p.nPut = 0 /\ p.nDl = 0
            /\ currentSyncStatus = IDLE

\* C5: for every tracked file, active or not, the pending flag is set right
\* after any local write to that file made while the client is offline.
C5_OfflineWriteSetsPending ==
  [][\A f \in Files, l \in EditLists :
       (~online /\ (LocalWriteNonActive(f, l)
                    \/ (f = activeFile /\ LocalWrite(l))))
         => PendingIn(pendingStore', f)]_vars

\* The steps of a pass in which the code clears the flag of the pass's file.
UploadSucceeds(i) == pass[i].pc = "u_put" /\ pass'[i].putOk
DownloadOverwrites(i) == pass[i].pc \in {"dl", "u_dl"} /\ pass'[i].wrote
DownloadDelivers(i) ==
  pass[i].pc \in {"dl", "u_dl"} /\ pass'[i].dlResult.tag = "string"
RowWithoutTransfer(i) ==
  pass[i].pc = "meta" /\ pass'[i].row \in {"tolerance", "nothing"}
PromptCancelled(i) == pass[i].pc = "modal" /\ pass'[i].choice = "cancel"
Cleared(f) == PendingIn(pendingStore, f) /\ ~PendingIn(pendingStore', f)

C7_ToleranceFrame ==
  [][\A i \in PassIds :
       (pass[i].pc = "meta" /\ pass'[i].pc # "meta" /\ BothDates(pass'[i])
        /\ AbsDiff(pass'[i].localDate, pass'[i].dropboxDate) <= buffer)
         => /\ pass'[i].pc = "done"
            /\ pass'[i].nPrompt = 0 /\ conflictResolver' = conflictResolver
            /\ pass'[i].nUploadCalls = 0 /\ pass'[i].nPut = 0
            /\ pass'[i].nDl = 0
            /\ todos' = todos /\ localLastModified' = localLastModified
            /\ remote' = remote]_vars

\* C7 witness: a finished pass whose timestamps were exactly 2000 ms apart.
C7_Witness ==
  \E i \in PassIds :
    /\ Finished(i) /\ BothDates(pass[i])
    /\ AbsDiff(pass[i].localDate, pass[i].dropboxDate) = buffer

\* C8: a finished pass that found the remote file absent and a local timestamp
\* present made exactly one upload call, and if the upload succeeded it ended
\* with the pending flag cleared and status Idle.
C8_InitialPush ==
  \A i \in PassIds :
    LET p == pass[i]
    IN (Finished(i) /\ p.dropboxDate = NoTime /\ p.localDate # NoTime)
         => /\ p.nUploadCalls = 1
            /\ p.putOk => (~p.endPending /\ currentSyncStatus = IDLE)

\* C9: a finished pass whose prompt was answered 'local' made exactly one
\* upload call and showed no further prompt, and if the upload succeeded the
\* pending flag is cleared.
C9_LocalChoice ==
  \A i \in PassIds :
    LET p == pass[i]
    IN (Finished(i) /\ p.choice = "local")
         => /\ p.nUploadCalls = 1
            /\ p.nPrompt = 1
            /\ p.putOk => ~p.endPending

\* C10: a finished pass whose prompt was answered with the remote side and
\* whose download delivered text leaves local content that serialises to
\* exactly the downloaded text, and the pending flag cleared.
C10_RemoteChoice ==
  \A i \in PassIds :
    LET p == pass[i]
    IN (Finished(i) /\ p.choice = "dropbox" /\ p.dlResult.tag = "string")
         => /\ Join(todos[p.path]) = p.dlResult.val
            /\ ~p.endPending

Settled ==
  /\ \A i \in PassIds : pass[i].pc = "idle"
  /\ syncDebounceTimer = NoTime

\* C12: with gateway calls succeeding, once the client is online again and
\* authenticated and every pass and timer it triggered has run, no file is
\* left with an offline edit still flagged as not pushed: the edit made
\* offline has been synced, whichever file is active by then.
C12_OfflineEditsSynced ==
  (Settled /\ online /\ dbx)
    => \A f \in Files : ~(PendingIn(pendingStore, f) /\ dirty[f].l)

\* C13: in the step that handles the online event with a credential held: if
\* the pending flag of the active file is set, a call chain that runs
\* coordinateSync is started; if it is not set, the status becomes Idle, no
\* call chain is started and nothing is sent to or changed on the remote store.
C13_OnlineEvent ==
  [][(~online /\ online' /\ dbx)
       => IF isUploadPending(activeFile)
          THEN \E i \in PassIds : /\ pass[i].pc \notin Suspended
                                  /\ pass'[i].pc = "o_import"
          ELSE /\ currentSyncStatus' = IDLE
               /\ currentFilePath' = activeFile
               /\ \A i \in PassIds : pass'[i] = pass[i]
               /\ remote' = remote]_vars

\* C13 witness: the chain started by the online event has entered
\* coordinateSync for a file whose flag was set.
C13_Witness ==
  \E i \in PassIds :
    pass[i].pc = "meta" /\ pass[i].startPending /\ syncDebounceTimer = NoTime
    /\ now < SYNC_DEBOUNCE_DELAY

\* C14: the offline event sets the displayed status to Offline in the same
\* step, whatever the status was before and whether or not a pass is in
\* flight.
C14_OfflineEvent ==
  [][(online /\ ~online') => currentSyncStatus' = OFFLINE]_vars

\* the offline event arrived while a pass was suspended and the indicator
\* shows Offline
C14_Witness ==
  /\ ~online
  /\ currentSyncStatus = OFFLINE
  /\ \E i \in PassIds : pass[i].pc \in InFlight

\* C15: when getMetadata is rejected as unauthenticated during a pass and no
\* refresh token is held, the same step logs out (both tokens discarded, the
\* API instance dropped), ends the pass with status NotConnected and issues
\* no upload and no download.
C15_AuthErrorLogsOut ==
  [][\A i \in PassIds :
       (auth.refreshToken = NoToken /\ MetadataReturn(i, "auth"))
         => /\ pass'[i].pc = "done"
            /\ pass'[i].nUploadCalls = 0
            /\ pass'[i].nDl = 0
            /\ auth'.accessToken = NoToken
            /\ auth'.refreshToken = NoToken
            /\ currentSyncStatus' = NOT_CONNECTED]_vars

\* C16: when getMetadata fails on the network or the server during a pass,
\* the same step ends the pass with status Error and issues no upload and no
\* download: the failure is not taken for a file the remote store lacks.
\* Stated for the passes whose file the remote store does hold.
C16_MetadataErrorEndsPass ==
  [][\A i \in PassIds :
       (pass[i].path # NoPath /\ remote[pass[i].path].exists
          /\ MetadataReturn(i, "error"))
         => /\ pass'[i].pc = "done"
            /\ pass'[i].nUploadCalls = 0
            /\ pass'[i].nDl = 0
            /\ currentSyncStatus' = ERROR]_vars

\* C17: one invocation of an operation of the credential manager makes at
\* most one token refresh and retries its remote call at most once, however
\* often the call is rejected as unauthenticated: file discovery lists the
\* folder at most twice and refreshes at most once.
C17_OneRefreshOneRetry ==
  authCall.nRefresh <= 1 /\ authCall.nList <= 2

\* a call of getAccessToken that returned
TokenCallDone == authCall.op = "getToken" /\ authCall.pc = "done"

\* both tokens are gone from memory and from storage
TokensDiscarded ==
  /\ auth.accessToken = NoToken /\ auth.refreshToken = NoToken
  /\ auth.ACCESS_TOKEN_KEY = NoToken /\ auth.REFRESH_TOKEN_KEY = NoToken

\* C18: getAccessToken entered with no access token and a refresh token
\* makes exactly one refresh call; when the refresh succeeded the new token
\* is the result and is in localStorage; when it failed both tokens are
\* discarded by a logout and the result is null; entered with neither token
\* it returns null without a refresh call.
C18_GetAccessToken ==
  TokenCallDone =>
    /\ (authCall.startAccess = NoToken /\ authCall.startRefresh # NoToken)
         => /\ authCall.nRefresh = 1
            /\ authCall.refreshOk = "ok"
                 => /\ authCall.result # NoToken
                    /\ auth.accessToken = authCall.result
                    /\ auth.ACCESS_TOKEN_KEY = authCall.result
                    /\ authCall.nLogout = 0
            /\ authCall.refreshOk = "failed"
                 => /\ authCall.result = NoToken
                    /\ authCall.nLogout = 1
                    /\ TokensDiscarded
            /\ authCall.refreshOk # "none"
    /\ (authCall.startAccess = NoToken /\ authCall.startRefresh = NoToken)
         => /\ authCall.result = NoToken
            /\ authCall.nRefresh = 0

\* getAccessToken returned the token a refresh obtained
C18_Witness ==
  /\ TokenCallDone
  /\ authCall.startAccess = NoToken
  /\ authCall.refreshOk = "ok"
  /\ authCall.result = "access"

\* nothing of the credential is left in memory or in storage
NoCredential == Credential(NoToken, NoToken, NoToken)

\* C19: logoutFromDropbox, applied in any state, leaves no access token, no
\* refresh token and no verifier in memory or in storage, and applying it a
\* second time changes nothing; every step in which it is called ends
\* without credential.
C19_LogoutClears ==
  /\ [](LET once == logoutFromDropbox(Ctx(1))
        IN once.auth = NoCredential /\ logoutFromDropbox(once) = once)
  /\ [][(Logout \/ authCall'.nLogout > authCall.nLogout)
          => auth' = NoCredential]_vars

\* initializeAuthentication called logoutFromDropbox twice after a failed
\* refresh, in a session that held a refresh token and a verifier
C19_Witness ==
  /\ authCall.nLogout = 2
  /\ authCall.startRefresh # NoToken
  /\ auth = NoCredential

\* an operation of the module returned after calling logoutFromDropbox
LoggedOutCallDone == authCall.pc = "done" /\ authCall.nLogout > 0

\* C20 as stated: whatever made an operation log out, the indicator shows
\* NotConnected when that operation returns.
C20_LogoutShowsNotConnected ==
  LoggedOutCallDone => currentSyncStatus = NOT_CONNECTED

\* C20, amended: when the operation that logged out returns, the indicator
\* shows NotConnected if the logout came from the user or from an
\* authentication error met without refresh token, and Error if it came from
\* a failed token refresh.
C20_LogoutStatus ==
  /\ [](LoggedOutCallDone =>
          currentSyncStatus = IF authCall.refreshOk = "failed"
                              THEN ERROR ELSE NOT_CONNECTED)
  /\ [][Logout => currentSyncStatus' = NOT_CONNECTED]_vars

\* getAccessToken returned after a failed refresh logged the session out
C20_Witness ==
  /\ LoggedOutCallDone
  /\ authCall.op = "getToken"
  /\ authCall.refreshOk = "failed"
  /\ currentSyncStatus = ERROR

\* the two tokens of a credential, in memory and in storage
TokensOf(credential) ==
  <<credential.accessToken, credential.refreshToken,
    credential.ACCESS_TOKEN_KEY, credential.REFRESH_TOKEN_KEY>>

\* C21: handleRedirect with a code whose exchange succeeded has both tokens
\* in localStorage and no verifier in sessionStorage and returns true; with a
\* code and a missing verifier or a failed exchange it writes no token,
\* leaves no verifier and returns false; with neither code nor error
\* parameter it returns false (not a redirect) and leaves the credential as
\* it was.
C21_HandleRedirect ==
  /\ authCall.exchange = "ok"
       => /\ authCall.redirect = "code"
          /\ authCall.hrResult = "true"
          /\ authCall.hrAfter.ACCESS_TOKEN_KEY # NoToken
          /\ authCall.hrAfter.REFRESH_TOKEN_KEY # NoToken
          /\ authCall.hrAfter.CODE_VERIFIER_KEY = NoToken
  /\ authCall.exchange \in {"failed", "no_verifier"}
       => /\ authCall.redirect = "code"
          /\ authCall.hrResult = "false"
          /\ TokensOf(authCall.hrAfter) = TokensOf(authCall.hrBefore)
          /\ authCall.hrAfter.CODE_VERIFIER_KEY = NoToken
  /\ (authCall.redirect = "code" /\ authCall.pc # "exchange")
       => authCall.exchange # "none"
  /\ (authCall.op = "init" /\ authCall.redirect = "none")
       => /\ authCall.hrResult = "false"
          /\ authCall.hrAfter = authCall.hrBefore

\* a page load with a code and a stored verifier whose exchange succeeded, in
\* a session that held no token before
C21_Witness ==
  /\ authCall.exchange = "ok"
  /\ authCall.hrBefore.ACCESS_TOKEN_KEY = NoToken
  /\ authCall.hrBefore.CODE_VERIFIER_KEY # NoToken
  /\ auth = Credential("access", "refresh", NoToken)

\* C22: every upload that the add-file handler makes for the new path sends
\* an empty document, whatever the active file is and whatever it holds
\* (here: an active file that had been saved before the upload read it).
C22_CreateUploadsEmpty ==
  \A i \in PassIds :
    pass[i].caller = "addFile" /\ pass[i].nPut > 0 /\ pass[i].uLocalDate # NoTime
      => pass[i].upContent = <<>>

\* The ordering half of the same sentence: a path enters the known set
\* through the add-file handler only in the step that follows the return of
\* its upload call (the only other way in is a rename to that path).
AddedOnlyAfterUpload ==
  [][\A f \in Paths :
       f \notin knownFiles /\ f \in knownFiles' =>
         \/ \E i \in PassIds : pass[i].pc = "a_uploaded" /\ pass[i].path = f
                               /\ pass[i].nUploadCalls = 1
         \/ \E i \in PassIds : pass'[i].caller = "renameFile"
                               /\ pass'[i].newPath = f]_vars

\* C23: the rename handler calls the remote rename only after a successful
\* local rename and never after a failed one, and a remote rename that
\* fails (returns false) undoes nothing: the step in which the failure
\* arrives leaves the known files, the active file and the stored lists as
\* the local rename made them.
C23_RenameLocalFirst ==
  /\ [](\A i \in PassIds :
          pass[i].caller = "renameFile" =>
            /\ pass[i].pc \in {"r_import", "r_move"} \/ pass[i].nRemote > 0
                 => pass[i].localRename = "ok"
            /\ pass[i].localRename = "failed"
                 => pass[i].nRemote = 0 /\ pass[i].pc = "done")
  /\ [][\A i \in PassIds :
          /\ pass[i].pc \in {"r_import", "r_move"}
          /\ pass'[i].pc = "done"
          /\ pass'[i].remoteOk = "false"
          => /\ pass'[i].warned
             /\ knownFiles' = knownFiles
             /\ activeFile' = activeFile
             /\ todos' = todos
             /\ localLastModified' = localLastModified]_vars

\* a rename whose remote call was made and failed: the file is tracked under
\* its new path and is the active file
C23_Witness ==
  \E i \in PassIds :
    /\ pass[i].caller = "renameFile" /\ pass[i].pc = "done"
    /\ pass[i].localRename = "ok" /\ pass[i].nRemote = 1
    /\ pass[i].remoteOk = "false"
    /\ pass[i].newPath \in knownFiles /\ pass[i].path \notin knownFiles
    /\ activeFile = pass[i].newPath

\* C24: when the delete handler has run to its end, the file is no longer
\* in the known set and is not the active file, whether the remote delete
\* succeeded, failed or was not attempted for want of an API instance; the
\* warning is shown exactly when the remote delete did not succeed.
C24_DeleteAlwaysLocal ==
  \A i \in PassIds :
    pass[i].caller = "deleteFile" /\ pass[i].pc = "done" =>
      /\ pass[i].path \notin knownFiles
      /\ activeFile # pass[i].path
      /\ pass[i].remoteOk \in {"true", "false"}
      /\ pass[i].warned <=> pass[i].remoteOk = "false"

\* a delete whose remote call was made and failed
C24_Witness ==
  \E i \in PassIds :
    /\ pass[i].caller = "deleteFile" /\ pass[i].pc = "done"
    /\ pass[i].nRemote = 1 /\ pass[i].remoteOk = "false" /\ pass[i].warned
    /\ pass[i].path \notin knownFiles

\* What the handler and the timer callback do to the debounce timer: never
\* more than one timer is armed, and it is the one behind the handle; every
\* save of the active file replaces it by a timer one full
\* delay after that save; the callback runs no earlier than the deadline,
\* and nothing is armed once it has run.
DebounceArming ==
  /\ [](/\ Cardinality(armedTimers) <= 1
        /\ \A d \in armedTimers :
             /\ d = syncDebounceTimer
             /\ d <= now + SYNC_DEBOUNCE_DELAY)
  /\ [][localLastModified'[activeFile] # localLastModified[activeFile]
          => armedTimers' = {now + SYNC_DEBOUNCE_DELAY}]_vars
  /\ [][TimerFire => /\ armedTimers # {}
                     /\ \A d \in armedTimers : now >= d
                     /\ armedTimers' = {}]_vars

\* C25 as stated: at most one timer is armed, the saves of one window
\* collapse into a timer one full delay after the last of them, and that
\* timer ends by firing -- so the burst gets exactly one timer-triggered
\* coordinateSync call.
C25_ExactlyOneTimerCall ==
  /\ DebounceArming
  /\ [][armedTimers # {} /\ armedTimers' = {} => TimerFire]_vars

\* C25, amended: the same, except that an armed timer can also end without
\* firing, when a coordinateSync call started by the online handler clears
\* it; the burst then gets no timer-triggered call.
C25_AtMostOneTimerCall ==
  /\ DebounceArming
  /\ [][armedTimers # {} /\ armedTimers' = {}
          => TimerFire \/ \E i \in PassIds : OnlineImportReturn(i)]_vars

\* the timer has come due: a save of the active file made after time 0 lies
\* one full delay back, and no later save moved the deadline
C25_Witness ==
  /\ armedTimers = {now}
  /\ localLastModified[activeFile] > 0
  /\ now = localLastModified[activeFile] + SYNC_DEBOUNCE_DELAY

\* C26: at most one call chain is waiting for the user's choice in the
\* conflict modal; showConflictModal is not called while an earlier call of
\* it has not been answered.
C26_OnePromptOutstanding ==
  Cardinality({i \in PassIds : pass[i].pc \in {"modal", "u_modal"}}) <= 1

\* C27: a save of the active file made offline calls setUploadPending for
\* it; the flag is set, and the displayed status becomes Pending unless it
\* is Offline, in which case it stays Offline.
C27_PendingUnlessOffline ==
  [][\A list \in EditLists :
       LocalWrite(list) /\ ~online =>
         /\ PendingIn(pendingStore', activeFile)
         /\ currentSyncStatus' = IF currentSyncStatus = OFFLINE THEN OFFLINE
                                 ELSE PENDING]_vars

\* C28: a pass that starts without an API instance (no credential) returns
\* at once: no gateway call, no change of a pending flag or of the stored
\* lists, and the displayed status is NotConnected when it returns; a pass
\* that starts without an active file returns in the same way with status
\* Error.
C28_GuardedStart ==
  [][\A i \in PassIds :
       pass[i].pc # "done" /\ pass'[i].pc = "done"
       /\ pass'[i].row \in {"no_dbx", "no_file"}
       => /\ pass'[i].nUploadCalls = 0 /\ pass'[i].nPut = 0 /\ pass'[i].nDl = 0
          /\ pendingStore' = pendingStore
          /\ todos' = todos
          /\ localLastModified' = localLastModified
          /\ currentSyncStatus' = IF pass'[i].row = "no_dbx" THEN NOT_CONNECTED
                                  ELSE ERROR]_vars

TableRow(remoteFile, localDate, pending) ==
  IF ~remoteFile.exists
  THEN IF localDate # NoTime THEN "push_initial" ELSE "nothing"
  ELSE IF localDate = NoTime THEN "pull_initial"
  ELSE IF AbsDiff(localDate, remoteFile.server_modified) <= buffer THEN "tolerance"
  ELSE IF remoteFile.server_modified > localDate
  THEN IF pending THEN "conflict" ELSE "pull_newer"
  ELSE "push_newer"

\* C30: in the step where the metadata call of a pass settles, the pass
\* takes the row that the decision table gives for (remote file exists,
\* local timestamp exists, their difference against the tolerance, pending
\* flag): a push row calls the upload and shows no prompt, the pull row
\* calls no upload, and the row for nothing on either side ends the pass
\* Idle with the flag cleared and no transfer; a pass that took the row
\* 'local newer' shows no conflict prompt up to its end.
C30_DecisionTable ==
  /\ [][\A i \in PassIds :
          pass[i].pc = "meta" /\ pass'[i].pc # "meta" =>
            LET path == pass[i].path
                row == TableRow(remote[path], pass[i].localDate,
                                PendingIn(pendingStore, path))
                q == pass'[i]
            IN /\ q.row = row
               /\ row \in {"push_initial", "push_newer"}
                    => q.nUploadCalls = 1 /\ q.nPrompt = 0 /\ q.nDl = 0
               /\ row = "pull_initial" => q.nUploadCalls = 0 /\ q.nPrompt = 0
               /\ row = "nothing"
                    => /\ q.pc = "done" /\ q.nUploadCalls = 0 /\ q.nDl = 0
                       /\ currentSyncStatus' = IDLE
                       /\ ~PendingIn(pendingStore', path)]_vars
  /\ [](\A i \in PassIds :
          Finished(i) /\ pass[i].row = "push_newer" => pass[i].nPrompt = 0)

\* C31: a pass that ends with status Error leaves the pending flag of its
\* file as it found it; in particular a flag that was set when the pass
\* started is still set when the pass ends.  (A pass that stops because the
\* client is offline touches no flag at all.)
C31_ErrorKeepsPending ==
  /\ [](\A i \in PassIds :
          Finished(i) /\ pass[i].finalStatus = ERROR /\ pass[i].startPending
            => pass[i].endPending)
  /\ [][\A i \in PassIds :
          pass[i].pc # "done" /\ pass'[i].pc = "done" /\ pass'[i].row = "offline"
            => pendingStore' = pendingStore]_vars

\* C32: a sync pass started for path P only reads and writes P: the document
\* it hands to the upload of P is P's local list, and a download it stores
\* changes the local list of no other file, wherever the active file is when
\* the pass resumes.
C32_PassStaysOnItsPath ==
  [][\A i \in PassIds :
       pass[i].caller = "coordinateSync" =>
         /\ pass'[i].nPut > pass[i].nPut
              => pass'[i].upContent = Join(todos[pass[i].path])
         /\ pass'[i].wrote /\ ~pass[i].wrote
              => \A f \in Paths \ {pass[i].path} : todos'[f] = todos[f]]_vars

\* The local copy of the active file f and the remote file f were made equal
\* by a successful transfer and neither side was edited since.
InSync(f) ==
  /\ f = activeFile
  /\ remote[f] # NoRemote
  /\ localLastModified[f] # NoTime
  /\ ~dirty[f].l /\ ~dirty[f].r

\* C33: syncing is idempotent: a pass that takes its decision while the file
\* is as the last successful transfer left it (no local edit, no remote
\* change since) and whose metadata call delivered the remote file calls no
\* upload, no download and no conflict prompt, however much time has passed.
C33_SecondPassIdle ==
  [][\A i \in PassIds :
       pass[i].caller = "coordinateSync" /\ pass[i].pc = "meta"
       /\ InSync(pass[i].path) /\ pass'[i].dropboxDate # NoTime
         => /\ pass'[i].nUploadCalls = pass[i].nUploadCalls
            /\ pass'[i].nDl = pass[i].nDl
            /\ pass'[i].nPrompt = pass[i].nPrompt]_vars

\* C34: whenever nothing is left to run (no pass in flight, no timer armed)
\* and the displayed status is Idle for the active file while the client is
\* online and holds its API instance, the active file has no local edit made
\* after the last successful push or pull.  Checked for a user who works on
\* one file, in the states where that file does not exist on the remote
\* store: there the only transfer that can absorb an edit is a push.
C34_IdleMeansSynced ==
  (Settled /\ online /\ dbx /\ remote[activeFile] = NoRemote
   /\ currentSyncStatus = IDLE /\ currentFilePath = activeFile)
    => ~dirty[activeFile].l

\* C35: every pass that starts returns, given that gateway calls return and
\* that the user answers the dialog on display.  A pass suspended on the
\* conflict prompt is resumed only through the stored resolver, so the claim
\* requires that resolver to be the pass's own for as long as it waits: a
\* waiting pass whose resolver was replaced or dropped can never return.
C35_WaitingPassHoldsResolver ==
  \A i \in PassIds :
    pass[i].pc \in {"modal", "u_modal"} => conflictResolver = i

\* C36: whenever no credential is held (here: after a logout, no token in
\* memory or in storage and no API instance), the displayed status is none
\* of Idle, Pending and Syncing, whatever ran since the logout.
C36_LoggedOutStatus ==
  (auth = NoCredential /\ ~dbx)
    => currentSyncStatus \notin {IDLE, PENDING, SYNCING}

\* C37: while the client is offline (after an offline event and before the
\* next online event) the displayed status is never Pending, Syncing, Idle
\* or Error: it stays Offline through local edits and through the
\* completion of passes that were in flight.
C37_OfflineStays ==
  ~online => currentSyncStatus \notin {PENDING, SYNCING, IDLE, ERROR}

\* C38: pending flags of distinct paths are independent: a call of
\* setUploadPending(p) or clearUploadPending(p) leaves isUploadPending(q) as
\* it was for every path q other than p, paths that differ only in '/'
\* against '_' included.
C38_FlagsIndependent ==
  [][\A p \in LedgerPaths, q \in LedgerPaths :
       p # q /\ (SetPending(p) \/ ClearPending(p))
         => PendingIn(pendingStore', q) = PendingIn(pendingStore, q)]_vars

\* C39: a single sync pass issues at most one content transfer: the number
\* of filesUpload calls plus the number of download calls it has made is at
\* most one at every moment of the pass.
C39_OneTransferPerPass ==
  \A i \in PassIds :
    pass[i].caller = "coordinateSync" => pass[i].nPut + pass[i].nDl <= 1

\* C39 witness: a pass whose conflict prompt was answered with the local side
\* called the upload, the upload found the remote newer and prompted again,
\* the user chose the remote side and the download returned.
C39_Witness ==
  \E i \in PassIds :
    /\ Finished(i) /\ pass[i].choice = "local" /\ pass[i].uChoice = "dropbox"
    /\ pass[i].nUploadCalls = 1 /\ pass[i].nDl = 1 /\ pass[i].nPut = 0

\* coordinateSync begins in this step as call chain i
SyncBegins(i) ==
  /\ pass[i].pc \in {"idle", "o_import"}
  /\ \/ pass'[i].pc = "meta"
     \/ pass'[i].pc = "done" /\ pass'[i].row \in {"no_file", "no_dbx", "offline"}

\* a timer is armed and its deadline lies within the modelled time
TimerWithinHorizon ==
  armedTimers # {} /\ \A d \in armedTimers : d <= MaxTime

====
